---- MODULE Spec2Model ----
(***************************************************************************)
(* A model of the bsharp-lang parser (src/src/parser.rs) and tree-walking  *)
(* executor (src/src/executor.rs).                                         *)
(*                                                                         *)
(*   Spec       the executor running programs against one environment      *)
(*   SpecParse  parse_program over token streams                           *)
(*   SpecExpr   parse_expression over operator chains, then evaluation     *)
(*   SpecEval   execute_expression over expression trees and environments  *)
(*   SpecArith  the (Integer, Integer) arithmetic arms over i32 operands   *)
(***************************************************************************)
EXTENDS Integers, Sequences, FiniteSets, TLC

VARIABLES
  overflow_checks, \* build profile: does i32 +,-,* overflow panic (debug) or wrap (release)
  variables,       \* Executor.variables
  output,          \* the lines written by println!
  program,         \* the Program handed to execute
  pc,              \* index of the next statement of the for loop in execute
  r,               \* the local r of execute
  returned,        \* what execute returned to its caller ("Running" while it runs)
  lexer,           \* Parser.lexer: the token stream and the read position
  current_token,   \* Parser.current_token
  next_token,      \* Parser.next_token
  statements,      \* the local statements of parse_program
  parsed,          \* what parse_program returned ("Running" while it runs)
  probe            \* input and result of one call of a function under test

vars == <<overflow_checks, variables, output, program, pc, r, returned,
          lexer, current_token, next_token, statements, parsed, probe>>

execVars == <<variables, output, program, pc, r, returned>>
parseVars == <<lexer, current_token, next_token, statements, parsed>>

-----------------------------------------------------------------------------
(* Bounds of the model *)

MaxStmts == 2
MaxToks  == 5
MaxChain == 3

-----------------------------------------------------------------------------
(* i32 *)

I32Max == 2147483647
I32Min == (-2147483647) - 1

InI32(n) == I32Min <= n /\ n <= I32Max

\* Whether the exact result leaves the i32 range, decided without leaving it.
AddOverflows(l, rr) ==
  IF rr > 0 THEN l > I32Max - rr
  ELSE IF rr < 0 THEN l < I32Min - rr
  ELSE FALSE

SubOverflows(l, rr) ==
  IF rr < 0 THEN l > I32Max + rr
  ELSE IF rr > 0 THEN l < I32Min + rr
  ELSE FALSE

\* Two's-complement wrapping sum and difference (the result modulo 2^32).
WrapAdd(l, rr) ==
  IF AddOverflows(l, rr)
    THEN IF rr > 0 THEN (l + I32Min) + (rr + I32Min)
                   ELSE (l - I32Min) + (rr - I32Min)
    ELSE l + rr

WrapSub(l, rr) ==
  IF SubOverflows(l, rr)
    THEN IF rr < 0 THEN (l + I32Min) - (rr - I32Min)
                   ELSE (l - I32Min) - (rr + I32Min)
    ELSE l - rr

\* Quotient truncated toward zero; rr # 0 and not (l = I32Min and rr = -1).
RECURSIVE TruncDiv(_, _)
TruncDiv(l, rr) ==
  IF rr > 0
    THEN IF l >= 0 THEN l \div rr
         ELSE IF l % rr = 0 THEN l \div rr ELSE (l \div rr) + 1
    ELSE IF rr = I32Min THEN (IF l = I32Min THEN 1 ELSE 0)
         ELSE 0 - TruncDiv(l, 0 - rr)

\* Remainder with the sign of the dividend.
TruncRem(l, rr) == l - (TruncDiv(l, rr) * rr)

MulOverflows(l, rr) ==
  IF l = 0 \/ rr = 0 THEN FALSE
  ELSE IF l > 0 /\ rr > 0 THEN l > TruncDiv(I32Max, rr)
  ELSE IF l > 0 /\ rr < 0 THEN rr < TruncDiv(I32Min, l)
  ELSE IF l < 0 /\ rr > 0 THEN l < TruncDiv(I32Min, rr)
  ELSE l < TruncDiv(I32Max, rr)

\* Two's-complement wrapping product (the result modulo 2^32), from 16-bit halves:
\* l * r = (hi(l)*lo(r) + lo(l)*hi(r)) * 2^16 + lo(l)*lo(r)  (mod 2^32).
WrapMul(l, rr) ==
  LET ll == l % 65536
      lh == l \div 65536
      rl == rr % 65536
      rh == rr \div 65536
      cross == (((lh * rl) % 65536) + ((ll * rh) % 65536)) % 65536
      crossShifted == IF cross >= 32768 THEN (cross - 65536) * 65536 ELSE cross * 65536
      upper == ll * (rl \div 256)
      upperShifted == IF upper >= 8388608 THEN (upper - 16777216) * 256 ELSE upper * 256
  IN  WrapAdd(crossShifted, WrapAdd(upperShifted, ll * (rl % 256)))

-----------------------------------------------------------------------------
(* Object, RuntimeType, RuntimeError, Result *)

Integer(n) == [type |-> "Integer", int |-> n, bool |-> FALSE]
Boolean(b) == [type |-> "Boolean", int |-> 0, bool |-> b]
Undefined  == [type |-> "Undefined", int |-> 0, bool |-> FALSE]

TypeOf(o) == o.type

NoError == [kind |-> "None", expected |-> "", actual |-> "", name |-> ""]
TypeMismatch(e, a) == [kind |-> "TypeMismatch", expected |-> e, actual |-> a, name |-> ""]
UnknownMethod(n) == [kind |-> "UnknownMethod", expected |-> "", actual |-> "", name |-> n]

Ok(v)      == [tag |-> "Ok", val |-> v, err |-> NoError]
Err(e)     == [tag |-> "Err", val |-> Undefined, err |-> e]
\* A panic unwinds through execute: nothing is returned to the caller.
Panic(why) == [tag |-> "Panic", val |-> Undefined,
               err |-> [kind |-> why, expected |-> "", actual |-> "", name |-> ""]]

-----------------------------------------------------------------------------
(* Expression *)

Identifier(n)    == [node |-> "Identifier", name |-> n]
IntegerLit(n)    == [node |-> "Integer", value |-> n]
Binary(l, op, e) == [node |-> "Binary", left |-> l, operator |-> op, right |-> e]
Unary(op, e)     == [node |-> "Unary", operator |-> op, expression |-> e]

ArithOps   == {"ADD", "SUB", "MUL", "DIV", "MOD"}
CompareOps == {"EQ", "NE", "GT", "LT", "LE", "GE"}
LogicOps   == {"AND", "OR", "XOR"}
BinaryOperators == ArithOps \cup CompareOps \cup LogicOps
UnaryOperators == {"NEGATIVE", "POSITIVE", "NOT"}

\* l + r on i32: a panic under overflow checks, the wrapped sum without them.
AddI32(l, rr) ==
  IF AddOverflows(l, rr) /\ overflow_checks
    THEN Panic("attempt to add with overflow")
    ELSE Ok(Integer(WrapAdd(l, rr)))

\* l - r on i32.
SubI32(l, rr) ==
  IF SubOverflows(l, rr) /\ overflow_checks
    THEN Panic("attempt to subtract with overflow")
    ELSE Ok(Integer(WrapSub(l, rr)))

\* l * r on i32.
MulI32(l, rr) ==
  IF MulOverflows(l, rr) /\ overflow_checks
    THEN Panic("attempt to multiply with overflow")
    ELSE Ok(Integer(WrapMul(l, rr)))

\* DivI32 with the quotient wrapped (i32::wrapping_div) instead of checked.
DivI32Wrapping(l, rr) ==
  IF rr = 0 THEN Panic("attempt to divide by zero")
  ELSE IF l = I32Min /\ rr = -1 THEN Ok(Integer(I32Min))
  ELSE Ok(Integer(TruncDiv(l, rr)))

\* l / r on i32: a zero divisor and i32::MIN / -1 panic in every build.
DivI32(l, rr) ==
  IF rr = 0 THEN Panic("attempt to divide by zero")
  ELSE IF l = I32Min /\ rr = -1 THEN Panic("attempt to divide with overflow")
  ELSE Ok(Integer(TruncDiv(l, rr)))

\* l % r on i32: a zero divisor and i32::MIN % -1 panic in every build.
RemI32(l, rr) ==
  IF rr = 0 THEN Panic("attempt to calculate the remainder with a divisor of zero")
  ELSE IF l = I32Min /\ rr = -1
    THEN Panic("attempt to calculate the remainder with overflow")
  ELSE Ok(Integer(TruncRem(l, rr)))

\* The (Integer, Integer) arm of execute_expression.
IntegerBinary(l, op, rr) ==
  CASE op = "ADD" -> AddI32(l, rr)
    [] op = "SUB" -> SubI32(l, rr)
    [] op = "MUL" -> MulI32(l, rr)
    [] op = "DIV" -> DivI32(l, rr)
    [] op = "MOD" -> RemI32(l, rr)
    [] op = "EQ" -> Ok(Boolean(l = rr))
    [] op = "NE" -> Ok(Boolean(l # rr))
    [] op = "GT" -> Ok(Boolean(l > rr))
    [] op = "LT" -> Ok(Boolean(l < rr))
    [] op = "LE" -> Ok(Boolean(l >= rr))
    [] op = "GE" -> Ok(Boolean(l <= rr))
    [] OTHER -> Err(TypeMismatch("Integer", "Boolean"))

\* The (Boolean, Boolean) arm of execute_expression.
BooleanBinary(l, op, rr) ==
  CASE op = "AND" -> Ok(Boolean(l /\ rr))
    [] op = "XOR" -> Ok(Boolean(l \/ rr))
    [] op = "OR"  -> Ok(Boolean(l \/ rr))
    [] OTHER -> Err(TypeMismatch("Boolean", "Integer"))

\* The Unary arm of execute_expression, the operand evaluated.
ApplyUnary(op, evaluated) ==
  CASE op = "NEGATIVE" ->
         IF evaluated.type = "Integer"
           THEN IF evaluated.int = I32Min /\ overflow_checks
                  THEN Panic("attempt to negate with overflow")
                  ELSE Ok(Integer(WrapSub(0, evaluated.int)))
           ELSE Err(TypeMismatch("Integer", "Integer"))
    [] op = "POSITIVE" ->
         IF evaluated.type = "Integer" THEN Ok(Integer(evaluated.int))
         ELSE Err(TypeMismatch("Integer", "Integer"))
    [] OTHER ->
         IF evaluated.type = "Boolean" THEN Ok(Boolean(~evaluated.bool))
         ELSE Err(TypeMismatch("Integer", "Integer"))

\* Executor::get_variable: Some(value) as <<value>>, None as <<>>.
GetVariable(env, name) ==
  IF name \in DOMAIN env THEN <<env[name]>> ELSE <<>>

\* SetVariable that keeps the value of a key already bound (entry().or_insert).
SetVariableKeepFirst(env, name, value) ==
  [n \in DOMAIN env \cup {name} |-> IF n \in DOMAIN env THEN env[n] ELSE value]

\* Executor::set_variable: BTreeMap::insert replaces the value of an existing key.
SetVariable(env, name, value) ==
  [n \in DOMAIN env \cup {name} |-> IF n = name THEN value ELSE env[n]]

\* CombineBinary with expected and actual exchanged in the mismatch arm.
CombineBinarySwapped(l, op, rr) ==
  IF l.type = "Integer" /\ rr.type = "Integer" THEN IntegerBinary(l.int, op, rr.int)
  ELSE IF l.type = "Boolean" /\ rr.type = "Boolean" THEN BooleanBinary(l.bool, op, rr.bool)
  ELSE Err(TypeMismatch(TypeOf(rr), TypeOf(l)))

\* The match on the pair (l, r) of a Binary expression, both operands evaluated.
CombineBinary(l, op, rr) ==
  IF l.type = "Integer" /\ rr.type = "Integer" THEN IntegerBinary(l.int, op, rr.int)
  ELSE IF l.type = "Boolean" /\ rr.type = "Boolean" THEN BooleanBinary(l.bool, op, rr.bool)
  ELSE Err(TypeMismatch(TypeOf(l), TypeOf(rr)))

\* Executor::execute_expression.  `?` returns the operand's error at once.
RECURSIVE ExecuteExpression(_, _)
ExecuteExpression(env, e) ==
  CASE e.node = "Identifier" ->
         LET got == GetVariable(env, e.name)
         IN  IF got # <<>> THEN Ok(got[1]) ELSE Ok(Undefined)
    [] e.node = "Integer" -> Ok(Integer(e.value))
    [] e.node = "Binary" ->
         LET l == ExecuteExpression(env, e.left)
         IN  IF l.tag # "Ok" THEN l
             ELSE LET rr == ExecuteExpression(env, e.right)
                  IN  IF rr.tag # "Ok" THEN rr
                      ELSE CombineBinary(l.val, e.operator, rr.val)
    [] OTHER ->
         LET evaluated == ExecuteExpression(env, e.expression)
         IN  IF evaluated.tag # "Ok" THEN evaluated
             ELSE ApplyUnary(e.operator, evaluated.val)

-----------------------------------------------------------------------------
(* Statement, as the executor matches it *)

NoExpression == IntegerLit(0)

Declaration(id, e) ==
  [kind |-> "Declaration", identifier |-> id, expression |-> e, arguments |-> <<>>]
Assignment(id, e) ==
  [kind |-> "Assignment", identifier |-> id, expression |-> e, arguments |-> <<>>]
MethodInvocation(id, args) ==
  [kind |-> "MethodInvocation", identifier |-> id, expression |-> NoExpression,
   arguments |-> args]
Empty ==
  [kind |-> "Empty", identifier |-> "", expression |-> NoExpression, arguments |-> <<>>]

\* The Display of an Object, as println!("{}", evaluated) writes it.
Display(o) ==
  CASE o.type = "Integer" -> ToString(o.int)
    [] o.type = "Boolean" -> IF o.bool THEN "true" ELSE "false"
    [] OTHER -> "undefined"

\* The effect of one statement: the result, the environment and the output after it.
Effect(res, env, out) == [res |-> res, env |-> env, out |-> out]

\* The "Print" arm of execute_method: the loop over the arguments from index i on.
RECURSIVE PrintArguments(_, _, _, _)
PrintArguments(env, out, arguments, i) ==
  IF i > Len(arguments) THEN Effect(Ok(Undefined), env, out)
  ELSE LET evaluated == ExecuteExpression(env, arguments[i])
       IN  IF evaluated.tag # "Ok" THEN Effect(evaluated, env, out)
           ELSE PrintArguments(env, Append(out, Display(evaluated.val)), arguments, i + 1)

\* Executor::execute_method.
ExecuteMethod(env, out, identifier, arguments) ==
  IF identifier = "Print" THEN PrintArguments(env, out, arguments, 1)
  ELSE Effect(Err(UnknownMethod(identifier)), env, out)

\* Executor::execute_const_assignment.
ExecuteConstAssignment(env, out, identifier, expression) ==
  LET evaluated == ExecuteExpression(env, expression)
  IN  IF evaluated.tag # "Ok" THEN Effect(evaluated, env, out)
      ELSE Effect(Ok(evaluated.val), SetVariable(env, identifier, evaluated.val), out)

\* Executor::execute_statement.
ExecuteStatement(env, out, s) ==
  CASE s.kind = "Declaration" ->
         ExecuteConstAssignment(env, out, s.identifier, s.expression)
    [] s.kind = "Assignment" ->
         ExecuteConstAssignment(env, out, s.identifier, s.expression)
    [] s.kind = "MethodInvocation" ->
         ExecuteMethod(env, out, s.identifier, s.arguments)
    [] OTHER -> Effect(Ok(Undefined), env, out)

Running == [tag |-> "Running", val |-> Undefined, err |-> NoError]
Idle    == [tag |-> "Idle", val |-> Undefined, err |-> NoError]

\* One iteration of the for loop of Executor::execute.
ExecuteLoop ==
  /\ returned.tag = "Running"
  /\ pc <= Len(program)
  /\ LET step == ExecuteStatement(variables, output, program[pc])
     IN  /\ variables' = step.env
         /\ output' = step.out
         /\ IF step.res.tag = "Ok"
              THEN /\ r' = step.res.val
                   /\ pc' = pc + 1
                   /\ returned' = returned
              ELSE /\ r' = r
                   /\ pc' = pc
                   /\ returned' = step.res
  /\ UNCHANGED <<overflow_checks, program, parseVars, probe>>

\* The end of the for loop of Executor::execute: Ok(r).
ExecuteReturn ==
  /\ returned.tag = "Running"
  /\ pc > Len(program)
  /\ returned' = Ok(r)
  /\ UNCHANGED <<overflow_checks, variables, output, program, pc, r,
                 parseVars, probe>>

-----------------------------------------------------------------------------
(* Token and the Parser's two-token window *)

Token(kind, value) == [kind |-> kind, value |-> value]

DefaultToken == Token("DEFAULT", <<"v", "a", "l", "u", "e">>)
EofToken     == Token("EOF", <<>>)

\* Lexer::next_token: the next lexeme of the input, and EOF once it is used up.
LexerNextToken(l) ==
  IF l.pos <= Len(l.input) THEN l.input[l.pos] ELSE EofToken

Parser(l, cur, nxt) == [lexer |-> l, current_token |-> cur, next_token |-> nxt]

\* Parser::next_token.
NextToken(p) ==
  Parser([input |-> p.lexer.input, pos |-> p.lexer.pos + 1],
         p.next_token, LexerNextToken(p.lexer))

\* Parser::new.
NewParser(input) ==
  NextToken(NextToken(Parser([input |-> input, pos |-> 1], DefaultToken, DefaultToken)))

\* Parser::expect_next_token.
ExpectNextToken(p, expect) ==
  IF p.next_token.kind = expect THEN [ok |-> TRUE, p |-> NextToken(p)]
  ELSE [ok |-> FALSE, p |-> p]

DigitValue ==
  ("0" :> 0) @@ ("1" :> 1) @@ ("2" :> 2) @@ ("3" :> 3) @@ ("4" :> 4) @@
  ("5" :> 5) @@ ("6" :> 6) @@ ("7" :> 7) @@ ("8" :> 8) @@ ("9" :> 9)

\* str::parse::<i32> on a text of decimal digits, read from the left.
RECURSIVE DigitsValue(_, _)
DigitsValue(text, acc) ==
  IF text = <<>> THEN acc
  ELSE DigitsValue(Tail(text), (acc * 10) + DigitValue[Head(text)])

\* Parser::parse_integer.
ParseInteger(p) == DigitsValue(p.current_token.value, 0)

\* Result<_, Errors> of a parsing method, with the parser as the method leaves it.
\* site names the check that failed; it is not part of Errors::TokenInvalid.
Parsed(e, p) ==
  [ok |-> TRUE, e |-> e, tok |-> DefaultToken, site |-> "", p |-> p]
TokenInvalid(tok, site, p) ==
  [ok |-> FALSE, e |-> IntegerLit(0), tok |-> tok, site |-> site, p |-> p]

BinaryOperatorOf ==
  ("PLUS" :> "ADD") @@ ("MINUS" :> "SUB") @@ ("ASTERISK" :> "MUL") @@
  ("SLASH" :> "DIV") @@ ("PERCENT" :> "MOD")

RECURSIVE ParseExpression(_)
RECURSIVE ParseBinaryOperation(_, _, _)
RECURSIVE ParseGroupedExpression(_)

\* The first match of parse_expression: an identifier, an integer or a group.
ParsePrimary(p) ==
  CASE p.current_token.kind = "IDENT" -> Parsed(Identifier(p.current_token.value), p)
    [] p.current_token.kind = "INT" -> Parsed(IntegerLit(ParseInteger(p)), p)
    [] p.current_token.kind = "LPAREN" -> ParseGroupedExpression(p)
    [] OTHER -> TokenInvalid(p.current_token, "expression", p)

\* Parser::parse_expression.
ParseExpression(p) ==
  LET e == ParsePrimary(p)
  IN  IF ~e.ok THEN e
      ELSE LET p1 == NextToken(e.p)
           IN  IF p1.current_token.kind \in DOMAIN BinaryOperatorOf
                 THEN ParseBinaryOperation(p1, e.e, BinaryOperatorOf[p1.current_token.kind])
                 ELSE Parsed(e.e, p1)

\* parse_binary_operation taking only a primary as the right operand and folding
\* to the left, as a left-associative parser does.
ParseBinaryOperationLeft(p, left, operator) ==
  LET right == ParsePrimary(NextToken(p))
  IN  IF ~right.ok THEN right
      ELSE LET p1 == NextToken(right.p)
               node == Binary(left, operator, right.e)
           IN  IF p1.current_token.kind \in DOMAIN BinaryOperatorOf
                 THEN ParseBinaryOperation(p1, node, BinaryOperatorOf[p1.current_token.kind])
                 ELSE Parsed(node, p1)

\* Parser::parse_binary_operation.
ParseBinaryOperation(p, left, operator) ==
  LET right == ParseExpression(NextToken(p))
  IN  IF ~right.ok THEN right
      ELSE Parsed(Binary(left, operator, right.e), right.p)

\* Parser::parse_grouped_expression.
ParseGroupedExpression(p) ==
  LET e == ParseExpression(NextToken(p))
  IN  IF ~e.ok THEN e
      ELSE IF e.p.current_token.kind = "RPAREN" THEN Parsed(e.e, e.p)
      ELSE TokenInvalid(e.p.current_token, "rparen", e.p)

\* Statement, as the parser builds it.
ConstAssignment(id, e) ==
  [kind |-> "ConstAssignment", identifier |-> id, expression |-> e, arguments |-> <<>>]
PrintStatement(args) ==
  [kind |-> "Print", identifier |-> <<>>, expression |-> NoExpression, arguments |-> args]
EmptyStatement ==
  [kind |-> "Empty", identifier |-> <<>>, expression |-> NoExpression, arguments |-> <<>>]

\* Parser::parse_const_assignment_statement.
ParseConstAssignmentStatement(p) ==
  LET p1 == NextToken(p)
      identifier == p1.current_token.value
      assign == ExpectNextToken(p1, "ASSIGN")
  IN  IF ~assign.ok THEN TokenInvalid(p1.next_token, "assign", p1)
      ELSE LET expression == ParseExpression(NextToken(assign.p))
           IN  IF ~expression.ok THEN expression
               ELSE IF expression.p.current_token.kind # "EOL"
                 THEN TokenInvalid(expression.p.next_token, "terminator", expression.p)
               ELSE Parsed(ConstAssignment(identifier, expression.e), expression.p)

\* The loop of parse_print_statement, with the arguments collected so far.
RECURSIVE PrintArgumentsLoop(_, _)
PrintArgumentsLoop(p, arguments) ==
  LET e == ParseExpression(p)
  IN  IF ~e.ok THEN e
      ELSE IF e.p.current_token.kind # "COMMA"
        THEN Parsed(PrintStatement(Append(arguments, e.e)), e.p)
      ELSE PrintArgumentsLoop(e.p, Append(arguments, e.e))

\* Parser::parse_print_statement.
ParsePrintStatement(p) == PrintArgumentsLoop(NextToken(p), <<>>)

\* Parser::parse_statement.
ParseStatement(p) ==
  CASE p.current_token.kind = "CONST" -> ParseConstAssignmentStatement(p)
    [] p.current_token.kind = "PRINT" -> ParsePrintStatement(p)
    [] OTHER -> Parsed(EmptyStatement, p)

\* Result<Program, Errors> of parse_program; current and next are the parser's
\* two tokens where it failed.
ParseRunning ==
  [tag |-> "Running", statements |-> <<>>, tok |-> DefaultToken, site |-> "",
   current |-> DefaultToken, next |-> DefaultToken]
ParseIdle == [ParseRunning EXCEPT !.tag = "Idle"]
ProgramOk(stmts) == [ParseRunning EXCEPT !.tag = "Ok", !.statements = stmts]
ProgramErr(tok, site, p) ==
  [ParseRunning EXCEPT !.tag = "Err", !.tok = tok, !.site = site,
                       !.current = p.current_token, !.next = p.next_token]

ThisParser == Parser(lexer, current_token, next_token)

\* One iteration of the while loop of Parser::parse_program.
ParseProgramLoop ==
  /\ parsed.tag = "Running"
  /\ current_token.kind # "EOF"
  /\ LET s == ParseStatement(ThisParser)
         after == IF s.ok /\ s.p.current_token.kind \in {"EOL", "EOF"}
                    THEN NextToken(s.p) ELSE s.p
     IN  /\ lexer' = after.lexer
         /\ current_token' = after.current_token
         /\ next_token' = after.next_token
         /\ statements' = IF s.ok THEN Append(statements, s.e) ELSE statements
         /\ parsed' = IF ~s.ok THEN ProgramErr(s.tok, s.site, s.p)
                      ELSE IF s.p.current_token.kind \notin {"EOL", "EOF"}
                        THEN ProgramErr(s.p.next_token, "terminator", s.p)
                      ELSE parsed
  /\ UNCHANGED <<overflow_checks, execVars, probe>>

\* The end of the while loop of Parser::parse_program: Ok(Program { statements }).
ParseProgramReturn ==
  /\ parsed.tag = "Running"
  /\ current_token.kind = "EOF"
  /\ parsed' = ProgramOk(statements)
  /\ UNCHANGED <<overflow_checks, execVars, lexer, current_token, next_token,
                 statements, probe>>

-----------------------------------------------------------------------------
(* The executor on a program: Spec *)

NoProbe == [stage |-> "none"]
NoLexer == [input |-> <<>>, pos |-> 1]

ParserUnused ==
  /\ lexer = NoLexer
  /\ current_token = DefaultToken
  /\ next_token = DefaultToken
  /\ statements = <<>>
  /\ parsed = ParseIdle

ExecutorUnused ==
  /\ output = <<>>
  /\ program = <<>>
  /\ pc = 1
  /\ r = Undefined
  /\ returned = Idle

Names == {"x", "y"}

ExecExprs ==
  {IntegerLit(7), IntegerLit(0), Identifier("y"),
   Binary(IntegerLit(7), "DIV", IntegerLit(0)),
   Binary(IntegerLit(7), "MOD", IntegerLit(0)),
   Binary(IntegerLit(7), "ADD", Identifier("y")),
   Binary(IntegerLit(3), "ADD", Binary(IntegerLit(7), "EQ", IntegerLit(7))),
   Binary(IntegerLit(I32Max), "ADD", IntegerLit(7))}

PrintArgumentLists ==
  {<<IntegerLit(7)>>, <<Identifier("x")>>, <<Identifier("x"), Identifier("y")>>,
   <<IntegerLit(7), Binary(IntegerLit(7), "ADD", Identifier("y")), IntegerLit(0)>>,
   <<IntegerLit(7), Binary(IntegerLit(7), "DIV", IntegerLit(0))>>,
   <<Binary(IntegerLit(7), "DIV", IntegerLit(0)), IntegerLit(7)>>}

ExecStatements ==
  {Declaration(n, e) : n \in Names, e \in ExecExprs}
    \cup {Assignment("x", IntegerLit(3))}
    \cup {MethodInvocation("Print", args) : args \in PrintArgumentLists}
    \cup {MethodInvocation("Show", <<IntegerLit(7)>>), Empty}

\* Executor::new, and execute entered with a program.
Init ==
  /\ overflow_checks \in BOOLEAN
  /\ variables = <<>>
  /\ output = <<>>
  /\ \E n \in 0..MaxStmts : program \in [1..n -> ExecStatements]
  /\ pc = 1
  /\ r = Undefined
  /\ returned = Running
  /\ ParserUnused
  /\ probe = NoProbe

Next == ExecuteLoop \/ ExecuteReturn

Spec == Init /\ [][Next]_vars

-----------------------------------------------------------------------------
(* The parser on a token stream: SpecParse *)

Alphabet ==
  {Token("CONST", <<"c">>), Token("PRINT", <<"p">>), Token("IDENT", <<"x">>),
   Token("INT", <<"1">>), Token("INT", <<"2">>), Token("ASSIGN", <<"=">>),
   Token("MINUS", <<"-">>), Token("LPAREN", <<"(">>), Token("RPAREN", <<")">>),
   Token("COMMA", <<",">>), Token("EOL", <<"n">>)}

\* Parser::new on a token stream, and parse_program entered.
InitParse ==
  /\ overflow_checks = FALSE
  /\ variables = <<>>
  /\ ExecutorUnused
  /\ \E n \in 0..MaxToks : \E input \in [1..n -> Alphabet] :
       LET p == NewParser(input)
       IN  /\ lexer = p.lexer
           /\ current_token = p.current_token
           /\ next_token = p.next_token
  /\ statements = <<>>
  /\ parsed = ParseRunning
  /\ probe = NoProbe

NextParse == ParseProgramLoop \/ ParseProgramReturn

SpecParse == InitParse /\ [][NextParse]_vars

-----------------------------------------------------------------------------
(* The grammar of section 4.1, as a recogniser over token positions, used to *)
(* say which token streams the claims call well-formed.                      *)

ArithmeticKinds == {"PLUS", "MINUS", "ASTERISK", "SLASH", "PERCENT"}

KindAt(toks, i) == IF i >= 1 /\ i <= Len(toks) THEN toks[i].kind ELSE "EOF"

\* The position after the expression that starts at i, or 0 when none starts there.
RECURSIVE ExprEnd(_, _)
ExprEnd(toks, i) ==
  LET primaryEnd ==
        CASE KindAt(toks, i) \in {"IDENT", "INT"} -> i + 1
          [] KindAt(toks, i) = "LPAREN" ->
               LET j == ExprEnd(toks, i + 1)
               IN  IF j # 0 /\ KindAt(toks, j) = "RPAREN" THEN j + 1 ELSE 0
          [] OTHER -> 0
  IN  IF primaryEnd = 0 THEN 0
      ELSE IF KindAt(toks, primaryEnd) \in ArithmeticKinds
        THEN ExprEnd(toks, primaryEnd + 1)
      ELSE primaryEnd

\* The comma-separated expressions from i on: where they end and how many they are.
RECURSIVE ArgumentsEnd(_, _, _)
ArgumentsEnd(toks, i, n) ==
  LET j == ExprEnd(toks, i)
  IN  IF j = 0 THEN [end |-> 0, n |-> 0]
      ELSE IF KindAt(toks, j) = "COMMA" THEN ArgumentsEnd(toks, j + 1, n + 1)
      ELSE [end |-> j, n |-> n + 1]

\* The position after the binding or one-argument print statement that starts at i.
StatementEnd(toks, i) ==
  CASE KindAt(toks, i) = "CONST" ->
         IF KindAt(toks, i + 1) = "IDENT" /\ KindAt(toks, i + 2) = "ASSIGN"
           THEN ExprEnd(toks, i + 3) ELSE 0
    [] KindAt(toks, i) = "PRINT" -> ExprEnd(toks, i + 1)
    [] OTHER -> 0

\* The number of lines from i on when each is a well-formed statement followed by
\* end-of-line or, the last one, by end-of-input; -1 otherwise.
RECURSIVE WellFormedLines(_, _)
WellFormedLines(toks, i) ==
  IF i > Len(toks) THEN 0
  ELSE LET j == StatementEnd(toks, i)
       IN  IF j = 0 THEN -1
           ELSE IF j > Len(toks) THEN 1
           ELSE IF toks[j].kind # "EOL" THEN -1
           ELSE LET rest == WellFormedLines(toks, j + 1)
                IN  IF rest = -1 THEN -1 ELSE rest + 1

ParseDone == parsed.tag \in {"Ok", "Err"}

-----------------------------------------------------------------------------
(* Claims about parse_program, under SpecParse *)

\* C2: a print statement of n >= 1 comma-separated expressions is accepted and
\* yields one call with exactly n arguments.
C2_PrintTakesEveryArgument ==
  LET toks == lexer.input
      args == ArgumentsEnd(toks, 2, 0)
  IN  (/\ ParseDone
       /\ KindAt(toks, 1) = "PRINT"
       /\ args.end # 0
       /\ args.end >= Len(toks)
       /\ KindAt(toks, args.end) \in {"EOL", "EOF"})
      => /\ parsed.tag = "Ok"
         /\ Len(parsed.statements) = 1
         /\ parsed.statements[1].kind = "Print"
         /\ Len(parsed.statements[1].arguments) = args.n

\* C6: a stream of well-formed statements, each followed by end-of-line or, the
\* last one, directly by end-of-input, parses to one statement per line.  Stated
\* for print statements of one argument, so that it does not rest on C2.
C6_AcceptsEndOfInput ==
  LET n == WellFormedLines(lexer.input, 1)
  IN  (ParseDone /\ n >= 1)
      => parsed.tag = "Ok" /\ Len(parsed.statements) = n

\* The token at which the parser detected the violation: the current token, and
\* for a missing assignment operator the token found in its place, after the name.
OffendingToken ==
  IF parsed.site = "assign" THEN parsed.next ELSE parsed.current

\* C7: a ParseError wraps the token at which the violation was detected.
C7_ErrorWrapsOffendingToken ==
  parsed.tag = "Err" => parsed.tok = OffendingToken

\* C8: every binding of a returned Program is named by an identifier token.
C8_BindingNameIsIdentifier ==
  parsed.tag = "Ok" =>
    \A i \in 1..Len(parsed.statements) :
      parsed.statements[i].kind = "ConstAssignment" =>
        \E j \in 1..Len(lexer.input) :
          /\ lexer.input[j].kind = "IDENT"
          /\ lexer.input[j].value = parsed.statements[i].identifier

-----------------------------------------------------------------------------
(* The (Integer, Integer) arithmetic arms on i32 operands: SpecArith *)

I32Samples ==
  {I32Min, I32Min + 1, -65536, -7, -2, -1, 0, 1, 2, 3, 7, 65536, I32Max - 1, I32Max}

InitArith ==
  /\ overflow_checks \in BOOLEAN
  /\ variables = <<>>
  /\ ExecutorUnused
  /\ ParserUnused
  /\ \E l \in I32Samples, op \in ArithOps, rr \in I32Samples :
       probe = [stage |-> "input", l |-> l, op |-> op, rr |-> rr, out |-> Idle]

\* execute_expression reaches the (Integer, Integer) arm with l, op and r.
ArithCall ==
  /\ probe.stage = "input"
  /\ probe' = [probe EXCEPT !.stage = "done",
                            !.out = IntegerBinary(probe.l, probe.op, probe.rr)]
  /\ UNCHANGED <<overflow_checks, variables, execVars, parseVars>>

NextArith == ArithCall

SpecArith == InitArith /\ [][NextArith]_vars

\* Whether the exact result of l op r lies outside the i32 range.
ExactOverflows(l, op, rr) ==
  CASE op = "ADD" -> AddOverflows(l, rr)
    [] op = "SUB" -> SubOverflows(l, rr)
    [] op = "MUL" -> MulOverflows(l, rr)
    [] OTHER -> FALSE

ReturnsI32(out) ==
  out.tag = "Ok" /\ out.val.type = "Integer" /\ InI32(out.val.int)

\* C10 as claimed: evaluation returns an Integer in the i32 range, except only
\* when the operator is / or % and the right operand is 0.
C10_OnlyZeroDivisorFaults ==
  probe.stage = "done" =>
    IF probe.op \in {"DIV", "MOD"} /\ probe.rr = 0
      THEN probe.out.tag = "Panic"
      ELSE ReturnsI32(probe.out)

\* C10 as amended: evaluation faults exactly for / and % by 0, for / and % of
\* -2147483648 by -1, and, in a build with overflow checks, for a sum, difference
\* or product outside the i32 range; otherwise it returns an Integer in the range.
C10_ArithmeticFaults ==
  probe.stage = "done" =>
    LET divisionFault ==
          /\ probe.op \in {"DIV", "MOD"}
          /\ (probe.rr = 0 \/ (probe.l = I32Min /\ probe.rr = -1))
        overflowFault ==
          overflow_checks /\ ExactOverflows(probe.l, probe.op, probe.rr)
    IN  IF divisionFault \/ overflowFault
          THEN probe.out.tag = "Panic"
          ELSE ReturnsI32(probe.out)

C10_Witness ==
  /\ probe.stage = "done"
  /\ probe.op = "DIV"
  /\ probe.l = I32Min
  /\ probe.rr = -1
  /\ probe.out.tag = "Panic"

-----------------------------------------------------------------------------
(* execute_expression on expression trees: SpecEval *)

EvalEnvs ==
  {[n \in S |-> IF n = "x" THEN Integer(7) ELSE Boolean(TRUE)] : S \in SUBSET {"x", "b"}}

EvalLeaves == {Identifier("x"), Identifier("b"), IntegerLit(7), IntegerLit(0)}

EvalOperands ==
  EvalLeaves
    \cup {Binary(a, op, c) : a \in EvalLeaves, op \in {"ADD", "DIV", "EQ"}, c \in EvalLeaves}
    \cup {Unary(op, a) : op \in {"NEGATIVE", "NOT"}, a \in {Identifier("x"), Identifier("b")}}

EvalExprs ==
  EvalOperands
    \cup {Binary(a, op, c) : a \in EvalOperands, op \in BinaryOperators, c \in EvalOperands}

InitEval ==
  /\ overflow_checks \in BOOLEAN
  /\ variables \in EvalEnvs
  /\ ExecutorUnused
  /\ ParserUnused
  /\ \E e \in EvalExprs : probe = [stage |-> "input", e |-> e, out |-> Idle]

\* A call of execute_expression.
EvalCall ==
  /\ probe.stage = "input"
  /\ probe' = [probe EXCEPT !.stage = "done",
                            !.out = ExecuteExpression(variables, probe.e)]
  /\ UNCHANGED <<overflow_checks, variables, execVars, parseVars>>

NextEval == EvalCall

SpecEval == InitEval /\ [][NextEval]_vars

SameTypedPair(l, rr) ==
  \/ l.type = "Integer" /\ rr.type = "Integer"
  \/ l.type = "Boolean" /\ rr.type = "Boolean"

\* C9: a Binary expression whose operands evaluate to a pair that is neither two
\* Integers nor two Booleans fails, whatever the operator, with TypeMismatch of
\* the left value's type (expected) and the right value's type (actual); the left
\* operand is evaluated first, so its failure is the one reported.
C9_MismatchReportsLeftThenRight ==
  (probe.stage = "done" /\ probe.e.node = "Binary") =>
    LET l  == ExecuteExpression(variables, probe.e.left)
        rr == ExecuteExpression(variables, probe.e.right)
    IN  /\ l.tag # "Ok" => probe.out = l
        /\ (l.tag = "Ok" /\ rr.tag # "Ok") => probe.out = rr
        /\ (l.tag = "Ok" /\ rr.tag = "Ok" /\ ~SameTypedPair(l.val, rr.val)) =>
             /\ probe.out.tag = "Err"
             /\ probe.out.err.kind = "TypeMismatch"
             /\ probe.out.err.expected = l.val.type
             /\ probe.out.err.actual = rr.val.type

C9_Witness ==
  /\ probe.stage = "done"
  /\ probe.e.node = "Binary"
  /\ probe.e.left = Identifier("x")
  /\ probe.e.right = IntegerLit(7)
  /\ "x" \notin DOMAIN variables
  /\ probe.out = Err(TypeMismatch("Undefined", "Integer"))

-----------------------------------------------------------------------------
(* parse_expression on operator chains, then execute_expression: SpecExpr *)

PrimaryNames == {"x", "20", "3", "2", "(20-3)"}

\* A primary as source tokens.
PrimaryTokens(name) ==
  CASE name = "x" -> <<Token("IDENT", <<"x">>)>>
    [] name = "20" -> <<Token("INT", <<"2", "0">>)>>
    [] name = "3" -> <<Token("INT", <<"3">>)>>
    [] name = "2" -> <<Token("INT", <<"2">>)>>
    [] OTHER -> <<Token("LPAREN", <<"(">>), Token("INT", <<"2", "0">>),
                  Token("MINUS", <<"-">>), Token("INT", <<"3">>), Token("RPAREN", <<")">>)>>

\* The tree of a primary: what the first match of parse_expression is to build.
PrimaryTree(name) ==
  CASE name = "x" -> Identifier(<<"x">>)
    [] name = "20" -> IntegerLit(20)
    [] name = "3" -> IntegerLit(3)
    [] name = "2" -> IntegerLit(2)
    [] OTHER -> Binary(IntegerLit(20), "SUB", IntegerLit(3))

OperatorText ==
  ("PLUS" :> <<"+">>) @@ ("MINUS" :> <<"-">>) @@ ("ASTERISK" :> <<"*">>) @@
  ("SLASH" :> <<"/">>) @@ ("PERCENT" :> <<"%">>)

\* The tokens of the chain prims[i] ops[i] prims[i+1] ... prims[n].
RECURSIVE ChainTokens(_, _, _)
ChainTokens(prims, ops, i) ==
  IF i = Len(prims) THEN PrimaryTokens(prims[i])
  ELSE PrimaryTokens(prims[i]) \o <<Token(ops[i], OperatorText[ops[i]])>>
         \o ChainTokens(prims, ops, i + 1)

\* The end-of-line token that follows the chain.
Terminator == <<Token("EOL", <<"n">>)>>

\* Parser::new on the tokens of a chain p1 op1 p2 ... pn, n from 1 to MaxChain.
InitExpr ==
  /\ overflow_checks \in BOOLEAN
  /\ variables = (<<"x">> :> Integer(7))
  /\ ExecutorUnused
  /\ statements = <<>>
  /\ parsed = ParseIdle
  /\ \E n \in 1..MaxChain :
       \E prims \in [1..n -> PrimaryNames], ops \in [1..(n - 1) -> DOMAIN OperatorText] :
         LET p == NewParser(ChainTokens(prims, ops, 1) \o Terminator)
         IN  /\ lexer = p.lexer
             /\ current_token = p.current_token
             /\ next_token = p.next_token
             /\ probe = [stage |-> "input", prims |-> prims, ops |-> ops,
                         ok |-> FALSE, e |-> NoExpression, value |-> Idle]

\* A call of parse_expression with the chain's first token as the current token.
ParseExpressionCall ==
  /\ probe.stage = "input"
  /\ LET e == ParseExpression(ThisParser)
     IN  /\ lexer' = e.p.lexer
         /\ current_token' = e.p.current_token
         /\ next_token' = e.p.next_token
         /\ probe' = [probe EXCEPT !.stage = "parsed", !.ok = e.ok, !.e = e.e]
  /\ UNCHANGED <<overflow_checks, execVars, statements, parsed>>

\* execute_expression on the tree the parser returned.
EvaluateParsed ==
  /\ probe.stage = "parsed"
  /\ probe.ok
  /\ probe' = [probe EXCEPT !.stage = "evaluated",
                            !.value = ExecuteExpression(variables, probe.e)]
  /\ UNCHANGED <<overflow_checks, execVars, parseVars>>

NextExpr == ParseExpressionCall \/ EvaluateParsed

SpecExpr == InitExpr /\ [][NextExpr]_vars

\* Binary{left: p_i, operator: op_i, right: <the same for p_(i+1) ... p_n>}.
RECURSIVE RightNested(_, _, _)
RightNested(prims, ops, i) ==
  IF i = Len(prims) THEN PrimaryTree(prims[i])
  ELSE Binary(PrimaryTree(prims[i]), BinaryOperatorOf[ops[i]],
              RightNested(prims, ops, i + 1))

TwentyMinusThreeMinusTwo ==
  probe.prims = <<"20", "3", "2">> /\ probe.ops = <<"MINUS", "MINUS">>

\* C3: parse_expression turns a chain p1 op1 p2 ... pn into the right-nested
\* Binary tree, every operator at one precedence level, leaving the token after
\* the chain as the current token, and 20 - 3 - 2 evaluates to 19.
C3_RightAssociative ==
  probe.stage \in {"parsed", "evaluated"} =>
    /\ probe.ok
    /\ probe.e = RightNested(probe.prims, probe.ops, 1)
    /\ current_token.kind = "EOL"
    /\ (probe.stage = "evaluated" /\ TwentyMinusThreeMinusTwo)
         => probe.value = Ok(Integer(19))

C3_Witness ==
  /\ probe.stage = "evaluated"
  /\ TwentyMinusThreeMinusTwo
  /\ probe.e = Binary(IntegerLit(20), "SUB", Binary(IntegerLit(3), "SUB", IntegerLit(2)))
  /\ probe.value = Ok(Integer(19))

-----------------------------------------------------------------------------
(* Claims about execute, under Spec *)

ReadIdentifier(env, x) == ExecuteExpression(env, Identifier(x))

\* A step of the loop that completed a binding statement.
BindingStep ==
  /\ returned.tag = "Running"
  /\ pc <= Len(program)
  /\ program[pc].kind \in {"Declaration", "Assignment"}
  /\ pc' = pc + 1

\* C1: an identifier reads Undefined until it is bound, then the value stored by
\* its most recent binding; binding another name, or any other statement, leaves
\* the value read unchanged.
C1_ReadsLatestBinding ==
  /\ \A x \in Names : ReadIdentifier(variables, x) = Ok(Undefined)
  /\ [][\A x \in Names :
          IF BindingStep /\ program[pc].identifier = x
            THEN ReadIdentifier(variables', x)
                   = ExecuteExpression(variables, program[pc].expression)
            ELSE ReadIdentifier(variables', x) = ReadIdentifier(variables, x)]_vars

C1_Witness ==
  /\ Len(program) = 2
  /\ pc = 3
  /\ program[1] = Declaration("x", IntegerLit(7))
  /\ program[2] = Declaration("x", IntegerLit(0))
  /\ ReadIdentifier(variables, "x") = Ok(Integer(0))
  /\ ReadIdentifier(variables, "y") = Ok(Undefined)

\* A step of the loop that runs a binding whose expression divides, or takes the
\* modulo of, an Integer by the Integer 0.
DivisionByZeroStep ==
  /\ returned.tag = "Running"
  /\ pc <= Len(program)
  /\ program[pc].kind \in {"Declaration", "Assignment"}
  /\ program[pc].expression.node = "Binary"
  /\ program[pc].expression.operator \in {"DIV", "MOD"}
  /\ LET l  == ExecuteExpression(variables, program[pc].expression.left)
         rr == ExecuteExpression(variables, program[pc].expression.right)
     IN  /\ l.tag = "Ok" /\ l.val.type = "Integer"
         /\ rr.tag = "Ok" /\ rr.val = Integer(0)

\* C4: a binding that divides by zero ends execute with an Err(RuntimeError)
\* returned to the caller, and binds nothing.
C4_DivisionByZeroReturnsErr ==
  [][DivisionByZeroStep => (returned'.tag = "Err" /\ variables' = variables)]_vars

\* A step of the loop whose statement failed.
FailingStep == returned.tag = "Running" /\ returned'.tag \notin {"Running", "Ok"}

IsPrefix(a, b) == Len(a) <= Len(b) /\ SubSeq(b, 1, Len(a)) = a

\* C5: the first failing statement ends execute, which returns that error; the
\* environment is the one the statements before it produced, no later statement
\* is evaluated (the loop is left: pc stays on the failing statement) and the
\* output already emitted stays.
C5_HaltsAtFirstError ==
  [][FailingStep =>
       /\ returned'.tag = "Err"
       /\ variables' = variables
       /\ pc' = pc
       /\ IsPrefix(output, output')]_vars

====
